---------------------------- MODULE Spec2Model ----------------------------
(***************************************************************************)
(* Model of src/module.js: class Module, which rewrites the syntax tree of *)
(* an ES module (import/export declarations) into one AMD define(...) call.*)
(*                                                                         *)
(* Syntax-tree nodes are records carrying the ESTree field names the code  *)
(* reads (type, source, specifiers, local, imported, declaration, ...).    *)
(* JavaScript `undefined` and `null` are the values UNDEFINED and Null.    *)
(***************************************************************************)
EXTENDS Integers, Sequences, FiniteSets, TLC

VARIABLES
  ast,                       \* this.ast: the Program node the Module owns
  pc,                        \* position of the caller / of convert(); "threw" once convert()
                             \* has thrown
  calls,                     \* number of convert() calls that have returned
  imports,                   \* getDependencyPairs: var imports
  ids,                       \* getDependencyPairs: var ids
  cursor,                    \* getDependencyPairs: <<declaration, specifier>> being mapped
  dependencyToIdentifierMap, \* getDependencyPairs: the memo object, as its own properties in
                             \* the order they were created
  result,                    \* getDependencyPairs: pairs emitted so far (flattened)
  pairs,                     \* convertCodeWithImportDeclarations: var pairs
  allocations,               \* log of the allocator calls: [value, identifiers, param]
  input,                     \* the tree convert() was first called on
  beforeNormalize,           \* the tree normalizePairs was called on
  firstOutput                \* the tree the first convert() call left

vars == <<ast, pc, calls, imports, ids, cursor, dependencyToIdentifierMap, result,
          pairs, allocations, input, beforeNormalize, firstOutput>>

(***************************************************************************)
(* Bounds of the model.                                                    *)
(***************************************************************************)
MaxStmts == 3        \* top-level statements of an input program
MaxCalls == 2        \* convert() calls made on one tree

(***************************************************************************)
(* JavaScript values.                                                      *)
(***************************************************************************)
UNDEFINED == "<undefined>"     \* no identifier or module specifier has this spelling
Null == [type |-> "Null"]
Removed == [type |-> "Removed"] \* marks a node a visitor removed from its parent

\* String(v), as the + operator applies it to an operand that is not a string
Str(v) == IF v = UNDEFINED THEN "undefined" ELSE v
\* truthiness of a string-or-undefined value (!!v, filter(pair => pair.param))
Truthy(v) == v # UNDEFINED /\ v # ""

(***************************************************************************)
(* Node constructors for the input programs.                               *)
(***************************************************************************)
Identifier(n) == [type |-> "Identifier", name |-> n]
Literal(v) == [type |-> "Literal", value |-> v]
ImportDefaultSpecifier(l) == [type |-> "ImportDefaultSpecifier", local |-> Identifier(l)]
ImportNamespaceSpecifier(l) == [type |-> "ImportNamespaceSpecifier", local |-> Identifier(l)]
ImportSpecifier(i, l) ==
  [type |-> "ImportSpecifier", imported |-> Identifier(i), local |-> Identifier(l)]
ImportDeclaration(specs, src) ==
  [type |-> "ImportDeclaration", specifiers |-> specs, source |-> Literal(src)]
ExportSpecifier(l, e) ==
  [type |-> "ExportSpecifier", exported |-> Identifier(e), local |-> Identifier(l)]
ExportDefaultDeclaration(d) == [type |-> "ExportDefaultDeclaration", declaration |-> d]
ExportNamedDeclaration(d, specs) ==
  [type |-> "ExportNamedDeclaration", declaration |-> d, specifiers |-> specs]
VariableDeclaration(n, init) ==
  [type |-> "VariableDeclaration", kind |-> "const",
   declarations |-> << [type |-> "VariableDeclarator", id |-> Identifier(n), init |-> init] >>]
FunctionDeclaration(n) ==
  [type |-> "FunctionDeclaration", id |-> Identifier(n), params |-> << >>,
   body |-> [type |-> "BlockStatement", body |-> << >>]]
ExpressionStatement(e) == [type |-> "ExpressionStatement", expression |-> e]
CallExpression(c, args) == [type |-> "CallExpression", callee |-> c, arguments |-> args]
Program(body) == [type |-> "Program", body |-> body]

(***************************************************************************)
(* The statements input programs are built from.                           *)
(***************************************************************************)
ImportPool ==
  { ImportDeclaration(<< >>, "m"),                                      \* import 'm'
    ImportDeclaration(<< ImportDefaultSpecifier("na") >>, "m"),         \* import na from 'm'
    ImportDeclaration(<< ImportDefaultSpecifier("a") >>, "mn"),         \* import a from 'mn'
    ImportDeclaration(<< ImportNamespaceSpecifier("ns") >>, "m"),       \* import * as ns from 'm'
    ImportDeclaration(<< ImportSpecifier("x", "x"), ImportSpecifier("y", "y") >>, "m"),
                                                                        \* import {x, y} from 'm'
    ImportDeclaration(<< ImportSpecifier("b", "b") >>, "mn"),           \* import {b} from 'mn'
    ImportDeclaration(<< ImportSpecifier("x", "z"), ImportSpecifier("t", "t") >>, "m"),
                                                                        \* import {x as z, t} from 'm'
    ImportDeclaration(<< ImportSpecifier("u", "u") >>, "__proto__"),    \* import {u} from '__proto__'
    ImportDeclaration(<< ImportSpecifier("h", "h") >>, "hasOwnProperty"),
                                                                        \* import {h} from 'hasOwnProperty'
    ImportDeclaration(<< ImportSpecifier("q", "q") >>, "1") }           \* import {q} from '1'

ExportPool ==
  { ExportDefaultDeclaration(Literal("42")),                            \* export default 42
    ExportNamedDeclaration(Null, << ExportSpecifier("x", "x"), ExportSpecifier("v", "w") >>),
                                                                        \* export {x, v as w}
    ExportNamedDeclaration(VariableDeclaration("v", Literal("1")), << >>),
                                                                        \* export const v = 1
    ExportNamedDeclaration(FunctionDeclaration("g"), << >>) }           \* export function g () {}

StatementPool ==
  { ExpressionStatement(CallExpression(Identifier("a"), << Identifier("x"), Identifier("y") >>)),
                                                                        \* a(x, y)
    ExpressionStatement(CallExpression(Identifier("f"), << Identifier("b") >>)) }
                                                                        \* f(b)

Pool == ImportPool \cup ExportPool \cup StatementPool

\* a module states no statement of the pool twice (each binds or exports its own names)
Bodies ==
  UNION { { b \in [1..n -> Pool] : \A i, j \in 1..n : b[i] = b[j] => i = j } : n \in 0..MaxStmts }


(***************************************************************************)
(* The tree collaborator (abstract-syntax-tree over estraverse / esquery): *)
(* has, find, remove, replace, prepend, append, wrap.                      *)
(***************************************************************************)
\* the child fields a traversal follows, in order; list = the field holds an array
VisitorKeys(type) ==
  CASE type = "Program" -> << [key |-> "body", list |-> TRUE] >>
    [] type = "BlockStatement" -> << [key |-> "body", list |-> TRUE] >>
    [] type = "ImportDeclaration" ->
         << [key |-> "specifiers", list |-> TRUE], [key |-> "source", list |-> FALSE] >>
    [] type \in {"ImportDefaultSpecifier", "ImportNamespaceSpecifier"} ->
         << [key |-> "local", list |-> FALSE] >>
    [] type = "ImportSpecifier" ->
         << [key |-> "imported", list |-> FALSE], [key |-> "local", list |-> FALSE] >>
    [] type = "ExportDefaultDeclaration" -> << [key |-> "declaration", list |-> FALSE] >>
    [] type = "ExportNamedDeclaration" ->
         << [key |-> "declaration", list |-> FALSE], [key |-> "specifiers", list |-> TRUE] >>
    [] type = "ExportSpecifier" ->
         << [key |-> "exported", list |-> FALSE], [key |-> "local", list |-> FALSE] >>
    [] type = "VariableDeclaration" -> << [key |-> "declarations", list |-> TRUE] >>
    [] type = "VariableDeclarator" ->
         << [key |-> "id", list |-> FALSE], [key |-> "init", list |-> FALSE] >>
    [] type = "FunctionDeclaration" ->
         << [key |-> "id", list |-> FALSE], [key |-> "params", list |-> TRUE],
            [key |-> "body", list |-> FALSE] >>
    [] type = "FunctionExpression" ->
         << [key |-> "params", list |-> TRUE], [key |-> "body", list |-> FALSE] >>
    [] type = "ExpressionStatement" -> << [key |-> "expression", list |-> FALSE] >>
    [] type = "ReturnStatement" -> << [key |-> "argument", list |-> FALSE] >>
    [] type = "CallExpression" ->
         << [key |-> "callee", list |-> FALSE], [key |-> "arguments", list |-> TRUE] >>
    [] type = "MemberExpression" ->
         << [key |-> "object", list |-> FALSE], [key |-> "property", list |-> FALSE] >>
    [] type = "ObjectExpression" -> << [key |-> "properties", list |-> TRUE] >>
    [] type = "Property" ->
         << [key |-> "key", list |-> FALSE], [key |-> "value", list |-> FALSE] >>
    [] type = "ArrayExpression" -> << [key |-> "elements", list |-> TRUE] >>
    [] OTHER -> << >>          \* Identifier, Literal, null

RECURSIVE Flatten(_)
\* the concatenation of a sequence of sequences
Flatten(seqs) == IF seqs = << >> THEN << >> ELSE Head(seqs) \o Flatten(Tail(seqs))

RECURSIVE find(_, _)
\* find(selector): the nodes of the given type under node, in document order
find(node, type) ==
  LET keys == VisitorKeys(node.type)
      under(k) == IF keys[k].list
                  THEN Flatten([c \in 1..Len(node[keys[k].key]) |->
                                  find(node[keys[k].key][c], type)])
                  ELSE find(node[keys[k].key], type)
  IN (IF node.type = type THEN << node >> ELSE << >>)
       \o Flatten([k \in 1..Len(keys) |-> under(k)])

\* has(selector)
has(tree, type) == Len(find(tree, type)) > 0

\* prepend(node) / append(node) / wrap(callback) act on the Program's body
prepend(tree, node) == [tree EXCEPT !.body = << node >> \o @]
append(tree, node) == [tree EXCEPT !.body = Append(@, node)]

(***************************************************************************)
(* The visitor callbacks src/module.js hands to replace.                   *)
(***************************************************************************)
\* Array.prototype.indexOf, 1-based; 0 where JavaScript answers -1
indexOf(seq, x) ==
  IF \E k \in 1..Len(seq) : seq[k] = x
  THEN CHOOSE k \in 1..Len(seq) : seq[k] = x /\ \A l \in 1..(k - 1) : seq[l] # x
  ELSE 0

\* convertExportNamedDeclarationToDeclaration: the enter callback
convertExportNamedDeclarationToDeclaration_enter(node) ==
  IF node.type = "ExportNamedDeclaration" /\ node.declaration.type # "Null"
  THEN node.declaration
  ELSE node

\* convertExportDefaultDeclarationToReturn: the enter callback; the node is retagged
\* in place, so it keeps its declaration field beside the new argument field
convertExportDefaultDeclarationToReturn_enter(node) ==
  IF node.type = "ExportDefaultDeclaration"
  THEN [type |-> "ReturnStatement", declaration |-> node.declaration,
        argument |-> node.declaration]
  ELSE node

\* faulty variant: object and property are exchanged
convertIdentifierToMemberExpression_swapped(pair) ==
  [type |-> "MemberExpression",
   object |-> [type |-> "Identifier", name |-> pair.name],
   property |-> [type |-> "Identifier", name |-> pair.param]]

convertIdentifierToMemberExpression(pair) ==
  [type |-> "MemberExpression",
   object |-> [type |-> "Identifier", name |-> pair.param],
   property |-> [type |-> "Identifier", name |-> pair.name]]

\* normalizePairs: let nodes = pairs.filter(pair => !!pair.name)
normalizePairs_nodes(ps) == SelectSeq(ps, LAMBDA pair : Truthy(pair.name))

\* normalizePairs: the leave callback
normalizePairs_leave(nodes, current) ==
  LET names == [k \in 1..Len(nodes) |-> nodes[k].name]
      index == IF current.type = "Identifier" THEN indexOf(names, current.name) ELSE 0
  IN IF index # 0
     THEN convertIdentifierToMemberExpression(nodes[index])
     ELSE current

(***************************************************************************)
(* replace({enter, leave}): estraverse's replacing traversal. A visitor is *)
(* the record [kind, ...] naming the callbacks in use. enter runs before a *)
(* node's children are walked, and the children walked are those of the    *)
(* node enter returned; leave runs after them, and what leave returns is   *)
(* not walked.                                                            *)
(***************************************************************************)
enter(visitor, node) ==
  CASE visitor.kind = "remove" ->
         IF node.type = visitor.type THEN Removed ELSE node
    [] visitor.kind = "convertExportNamedDeclarationToDeclaration" ->
         convertExportNamedDeclarationToDeclaration_enter(node)
    [] visitor.kind = "convertExportDefaultDeclarationToReturn" ->
         convertExportDefaultDeclarationToReturn_enter(node)
    [] OTHER -> node

leave(visitor, node) ==
  CASE visitor.kind = "normalizePairs" -> normalizePairs_leave(visitor.nodes, node)
    [] OTHER -> node

RECURSIVE replace(_, _)
RECURSIVE replaceKeys(_, _, _)
replace(node, visitor) ==
  IF node.type = "Null" THEN node
  ELSE LET entered == enter(visitor, node)
       IN IF entered.type = "Removed" THEN Removed
          ELSE leave(visitor, replaceKeys(entered, visitor, 1))

replaceKeys(node, visitor, k) ==
  LET keys == VisitorKeys(node.type)
      key == keys[k].key
      walked == [c \in 1..Len(node[key]) |-> replace(node[key][c], visitor)]
      one == replace(node[key], visitor)
      new == IF keys[k].list
             THEN SelectSeq(walked, LAMBDA n : n.type # "Removed")
             ELSE IF one.type = "Removed" THEN Null ELSE one
  IN IF k > Len(keys) THEN node
     ELSE replaceKeys([node EXCEPT ![key] = new], visitor, k + 1)

\* remove({ type }): every node of the type is deleted from the tree
remove(tree, type) == replace(tree, [kind |-> "remove", type |-> type])

(***************************************************************************)
(* underscore's unique and pure-utilities' identifier.                     *)
(***************************************************************************)
\* unique(array, iteratee), given the iteratee's value for each element: the first
\* element of each iteratee value, in order
uniqueBy(seq, keys) ==
  LET keep == { k \in 1..Len(seq) : \A l \in 1..(k - 1) : keys[l] # keys[k] }
      F[k \in 0..Len(seq)] ==
        IF k = 0 THEN << >>
        ELSE IF k \in keep THEN Append(F[k - 1], seq[k]) ELSE F[k - 1]
  IN F[Len(seq)]

\* unique(array)
unique(seq) == uniqueBy(seq, seq)

\* the names identifier() tries, in order
Alphabet == << "a", "b", "c", "d", "e", "f" >>

\* identifier(array): the first name that array does not hold
identifier(array) ==
  LET free == { k \in 1..Len(Alphabet) : \A l \in 1..Len(array) : array[l] # Alphabet[k] }
  IN Alphabet[CHOOSE k \in free : \A l \in free : k <= l]

(***************************************************************************)
(* class Module: the pure parts of its methods.                            *)
(***************************************************************************)
\* the 'use strict' statement of prependUseStrictLiteral
UseStrictLiteral ==
  [type |-> "ExpressionStatement", expression |-> [type |-> "Literal", value |-> "use strict"]]

prependUseStrictLiteral(tree) == prepend(tree, UseStrictLiteral)

isSideEffectImportDeclaration(node) ==
  node.source.type # "Null" /\ node.source.type = "Literal" /\ Len(node.specifiers) = 0

\* item.name: the property read from a node, undefined where the node has none
nameOf(item) == IF "name" \in DOMAIN item THEN item.name ELSE UNDEFINED

\* var ids = unique(imports.map(item => item.name))
getDependencyPairs_ids(found) == unique([k \in 1..Len(found) |-> nameOf(found[k])])

\* the memo object has an own property of that key
own(map, key) == \E k \in 1..Len(map) : map[k].key = key

\* dependencyToIdentifierMap.hasOwnProperty(value): the method is looked up on the
\* memo itself, so an own property "hasOwnProperty" (a string, stored for the module
\* specifier 'hasOwnProperty') shadows Object.prototype's method and the call throws
\* a TypeError; result is what the call returns where it does not throw
hasOwnProperty(map, value) ==
  [throws |-> own(map, "hasOwnProperty"), result |-> own(map, value)]

\* dependencyToIdentifierMap[value]
get(map, value) == map[CHOOSE k \in 1..Len(map) : map[k].key = value].value

\* dependencyToIdentifierMap[value] = param, on an object literal: the key __proto__
\* is the accessor inherited from Object.prototype, whose setter ignores a string
\* and creates no own property
set(map, value, param) ==
  IF value = "__proto__" THEN map
  ELSE IF own(map, value)
  THEN [k \in 1..Len(map) |-> IF map[k].key = value THEN [map[k] EXCEPT !.value = param]
                                                      ELSE map[k]]
  ELSE Append(map, [key |-> value, value |-> param])

\* the value of a decimal digit, -1 for any other character
Digit(c) ==
  CASE c = "0" -> 0 [] c = "1" -> 1 [] c = "2" -> 2 [] c = "3" -> 3 [] c = "4" -> 4
    [] c = "5" -> 5 [] c = "6" -> 6 [] c = "7" -> 7 [] c = "8" -> 8 [] c = "9" -> 9
    [] OTHER -> -1

\* the number spelt by the digits from..to of a key (at most five digits)
Numeral(key, from, to) ==
  LET V[k \in (from - 1)..to] ==
        IF k = from - 1 THEN 0 ELSE V[k - 1] * 10 + Digit(SubSeq(key, k, k))
  IN V[to]

\* the key is an array index of ECMAScript: a canonical decimal numeral of at most
\* 2^32 - 2 = 42949 67294
IsArrayIndex(key) ==
  LET n == Len(key)
  IN /\ n \in 1..10
     /\ \A k \in 1..n : Digit(SubSeq(key, k, k)) >= 0
     /\ (n > 1 => SubSeq(key, 1, 1) # "0")
     /\ (n = 10 =>
           \/ Numeral(key, 1, 5) < 42949
           \/ Numeral(key, 1, 5) = 42949 /\ Numeral(key, 6, 10) <= 67294)

\* numeric order of two array-index keys
IndexLess(a, b) ==
  LET n == Len(a)
      h == IF n > 5 THEN n - 5 ELSE 0
  IN \/ n < Len(b)
     \/ /\ n = Len(b)
        /\ \/ Numeral(a, 1, h) < Numeral(b, 1, h)
           \/ Numeral(a, 1, h) = Numeral(b, 1, h)
                /\ Numeral(a, h + 1, n) < Numeral(b, h + 1, n)

\* Object.values(dependencyToIdentifierMap): the values of the array-index keys in
\* ascending numeric order, then those of the other keys in creation order
ObjectValues(map) ==
  LET indexed == SortSeq(SelectSeq(map, LAMBDA e : IsArrayIndex(e.key)),
                         LAMBDA e, f : IndexLess(e.key, f.key))
      named == SelectSeq(map, LAMBDA e : ~ IsArrayIndex(e.key))
      ordered == indexed \o named
  IN [k \in 1..Len(ordered) |-> ordered[k].value]

getLocalSpecifier(node, specifier) ==
  [element |-> node.source.value, param |-> specifier.local.name, name |-> UNDEFINED]

\* var identifiers = unique(flatten(ids)).concat(Object.values(dependencyToIdentifierMap))
\* (ids is a flat array, which flatten returns as it is)
getDependencyPairs_identifiers(idList, map) == unique(idList) \o ObjectValues(map)

\* one call of the callback of node.specifiers.map, or the side-effect branch for
\* the whole declaration: the pair returned, the memo afterwards, the allocator
\* call made, if any, and whether the callback threw instead (at line 65)
getDependencyPairs_map(node, j, idList, map) ==
  LET specifier == node.specifiers[j]
      value == node.source.value
      known == hasOwnProperty(map, value)
      identifiers == getDependencyPairs_identifiers(idList, map)
      fresh == identifier(identifiers)
      none == << >>
      undefinedPair == [element |-> UNDEFINED, param |-> UNDEFINED, name |-> UNDEFINED]
  IN IF isSideEffectImportDeclaration(node)
     THEN [pair |-> [element |-> node.source.value, param |-> UNDEFINED, name |-> UNDEFINED],
           map |-> map, calls |-> none, threw |-> FALSE]
     ELSE IF specifier.type \in {"ImportDefaultSpecifier", "ImportNamespaceSpecifier"}
     THEN [pair |-> getLocalSpecifier(node, specifier), map |-> map, calls |-> none,
           threw |-> FALSE]
     ELSE IF specifier.imported.name # specifier.local.name
     THEN [pair |-> getLocalSpecifier(node, specifier), map |-> map, calls |-> none,
           threw |-> FALSE]
     ELSE IF known.throws
     THEN [pair |-> undefinedPair, map |-> map, calls |-> none, threw |-> TRUE]
     ELSE IF known.result
     THEN [pair |-> [element |-> node.source.value, param |-> get(map, value),
                     name |-> specifier.local.name],
           map |-> map, calls |-> none, threw |-> FALSE]
     ELSE [pair |-> [element |-> node.source.value, param |-> fresh,
                     name |-> specifier.local.name],
           map |-> set(map, value, fresh),
           calls |-> << [value |-> value, identifiers |-> identifiers, param |-> fresh] >>,
           threw |-> FALSE]

getProperty(node, shorthand) ==
  [type |-> "Property", key |-> node, value |-> node, shorthand |-> shorthand,
   kind |-> "init"]

\* the properties of one export declaration, as an array (flatten splices an array
\* and keeps a single property); shorthand FALSE is the omitted argument
mapDeclarationToProperty(declaration) ==
  IF declaration.declaration.type = "Null"
  THEN [k \in 1..Len(declaration.specifiers) |->
          getProperty(declaration.specifiers[k].local, TRUE)]
  ELSE IF declaration.declaration.type = "VariableDeclaration"
  THEN [k \in 1..Len(declaration.declaration.declarations) |->
          getProperty(declaration.declaration.declarations[k].id, FALSE)]
  ELSE << getProperty(declaration.declaration.id, FALSE) >>

mapDeclarationsToProperties(declarations) ==
  Flatten([k \in 1..Len(declarations) |-> mapDeclarationToProperty(declarations[k])])

getObjectExpression(declarations) ==
  [type |-> "ObjectExpression", properties |-> mapDeclarationsToProperties(declarations)]

getFunctionExpression(params, body) ==
  [type |-> "FunctionExpression", params |-> params,
   body |-> [type |-> "BlockStatement", body |-> body]]

getDefine(nodes) ==
  [type |-> "ExpressionStatement",
   expression |-> [type |-> "CallExpression",
                   callee |-> [type |-> "Identifier", name |-> "define"],
                   arguments |-> nodes]]

getDefineWithFunctionExpression(body) == getDefine(<< getFunctionExpression(<< >>, body) >>)

getArrayExpression(elements) == [type |-> "ArrayExpression", elements |-> elements]

convertExportDefaultDeclarationToReturn(tree) ==
  replace(tree, [kind |-> "convertExportDefaultDeclarationToReturn"])

convertExportNamedDeclarationToDeclaration(tree) ==
  replace(tree, [kind |-> "convertExportNamedDeclarationToDeclaration"])

convertExportNamedDeclarations(tree) ==
  LET declarations == find(tree, "ExportNamedDeclaration")
      unwrapped == convertExportNamedDeclarationToDeclaration(tree)
      removed == remove(unwrapped, "ExportNamedDeclaration")
  IN append(removed, [type |-> "ReturnStatement",
                      argument |-> getObjectExpression(declarations)])

convertExportDefaultDeclarationToDefine(tree) ==
  LET returned == convertExportDefaultDeclarationToReturn(prependUseStrictLiteral(tree))
  IN [returned EXCEPT !.body = << getDefineWithFunctionExpression(returned.body) >>]

convertExportNamedDeclarationToDefine(tree) ==
  LET returned == convertExportNamedDeclarations(prependUseStrictLiteral(tree))
  IN [returned EXCEPT !.body = << getDefineWithFunctionExpression(returned.body) >>]

normalizePairs(tree, ps) ==
  replace(tree, [kind |-> "normalizePairs", nodes |-> normalizePairs_nodes(ps)])

\* the iteratee of unique(pairs, item => item.element + item.param)
pairKey(item) == Str(item.element) \o Str(item.param)

\* pairs = unique(pairs, item => item.element + item.param)
wrapWithDefineWithArrayExpression_unique(ps) ==
  uniqueBy(ps, [k \in 1..Len(ps) |-> pairKey(ps[k])])

wrapWithDefineWithArrayExpression_elements(ps) ==
  [k \in 1..Len(ps) |-> [type |-> "Literal", value |-> ps[k].element]]

wrapWithDefineWithArrayExpression_params(ps) ==
  LET bound == SelectSeq(ps, LAMBDA pair : Truthy(pair.param))
  IN [k \in 1..Len(bound) |-> [type |-> "Identifier", name |-> bound[k].param]]

wrapWithDefineWithArrayExpression(tree, ps) ==
  LET uniq == wrapWithDefineWithArrayExpression_unique(ps)
      elements == wrapWithDefineWithArrayExpression_elements(uniq)
      params == wrapWithDefineWithArrayExpression_params(uniq)
  IN [tree EXCEPT !.body =
        << getDefine(<< getArrayExpression(elements),
                        getFunctionExpression(params, tree.body) >>) >>]

\* lines 23-27 of convertCodeWithImportDeclarations
convertCodeWithImportDeclarations_exports(tree) ==
  IF has(tree, "ExportDefaultDeclaration") THEN convertExportDefaultDeclarationToReturn(tree)
  ELSE IF has(tree, "ExportNamedDeclaration") THEN convertExportNamedDeclarations(tree)
  ELSE tree

(***************************************************************************)
(* The state machine: a caller builds a Module on a parsed program and     *)
(* calls convert(), possibly again on the converted tree.                  *)
(***************************************************************************)
Init ==
  /\ ast \in { Program(b) : b \in Bodies }
  /\ input = ast
  /\ pc = "start"
  /\ calls = 0
  /\ imports = << >>
  /\ ids = << >>
  /\ cursor = << 1, 1 >>
  /\ dependencyToIdentifierMap = << >>
  /\ result = << >>
  /\ pairs = << >>
  /\ allocations = << >>
  /\ beforeNormalize = Null
  /\ firstOutput = Null

\* what convert() leaves when it returns
Return(tree) ==
  /\ ast' = tree
  /\ pc' = "done"
  /\ calls' = calls + 1
  /\ firstOutput' = IF calls = 0 THEN tree ELSE firstOutput

\* convert(), first branch, and the head of getDependencyPairs (lines 47-49)
convertCodeWithImportDeclarations ==
  /\ pc = "start"
  /\ has(ast, "ImportDeclaration")
  /\ imports' = find(ast, "ImportDeclaration")
  /\ ids' = getDependencyPairs_ids(imports')
  /\ cursor' = << 1, 1 >>
  /\ dependencyToIdentifierMap' = << >>
  /\ result' = << >>
  /\ allocations' = << >>
  /\ pc' = "getDependencyPairs"
  /\ UNCHANGED << ast, calls, pairs, input, beforeNormalize, firstOutput >>

\* getDependencyPairs: one pair is emitted (lines 50-79); after the last one the
\* flattened list is returned into var pairs (line 20). Where the callback throws,
\* the TypeError leaves getDependencyPairs, convertCodeWithImportDeclarations and
\* convert(), which have not touched the tree yet
getDependencyPairs ==
  /\ pc = "getDependencyPairs"
  /\ LET node == imports[cursor[1]]
         step == getDependencyPairs_map(node, cursor[2], ids, dependencyToIdentifierMap)
         next == IF cursor[2] < Len(node.specifiers)
                 THEN << cursor[1], cursor[2] + 1 >>
                 ELSE << cursor[1] + 1, 1 >>
         last == next[1] > Len(imports)
     IN /\ result' = IF step.threw THEN result ELSE Append(result, step.pair)
        /\ dependencyToIdentifierMap' = step.map
        /\ allocations' = allocations \o step.calls
        /\ cursor' = IF step.threw THEN cursor ELSE next
        /\ pairs' = IF ~ step.threw /\ last THEN result' ELSE pairs
        /\ pc' = IF step.threw THEN "threw"
                 ELSE IF last THEN "remove" ELSE "getDependencyPairs"
  /\ UNCHANGED << ast, calls, imports, ids, input, beforeNormalize, firstOutput >>

\* this.remove({ type: 'ImportDeclaration' })
removeImportDeclarations ==
  /\ pc = "remove"
  /\ ast' = remove(ast, "ImportDeclaration")
  /\ pc' = "normalizePairs"
  /\ UNCHANGED << calls, imports, ids, cursor, dependencyToIdentifierMap, result, pairs,
                  allocations, input, beforeNormalize, firstOutput >>

\* this.normalizePairs(pairs)
normalizePairsCall ==
  /\ pc = "normalizePairs"
  /\ beforeNormalize' = ast
  /\ ast' = normalizePairs(ast, pairs)
  /\ pc' = "exports"
  /\ UNCHANGED << calls, imports, ids, cursor, dependencyToIdentifierMap, result, pairs,
                  allocations, input, firstOutput >>

\* lines 23-28: the export is turned into a return, then the directive is prepended
convertExportsAndPrepend ==
  /\ pc = "exports"
  /\ ast' = prependUseStrictLiteral(convertCodeWithImportDeclarations_exports(ast))
  /\ pc' = "wrap"
  /\ UNCHANGED << calls, imports, ids, cursor, dependencyToIdentifierMap, result, pairs,
                  allocations, input, beforeNormalize, firstOutput >>

\* this.wrapWithDefineWithArrayExpression(pairs), and convert() returns
wrapWithDefineWithArrayExpressionCall ==
  /\ pc = "wrap"
  /\ Return(wrapWithDefineWithArrayExpression(ast, pairs))
  /\ UNCHANGED << imports, ids, cursor, dependencyToIdentifierMap, result, pairs,
                  allocations, input, beforeNormalize >>

\* convert(), second branch
convertExportDefault ==
  /\ pc = "start"
  /\ ~ has(ast, "ImportDeclaration")
  /\ has(ast, "ExportDefaultDeclaration")
  /\ Return(convertExportDefaultDeclarationToDefine(ast))
  /\ UNCHANGED << imports, ids, cursor, dependencyToIdentifierMap, result, pairs,
                  allocations, input, beforeNormalize >>

\* convert(), third branch
convertExportNamed ==
  /\ pc = "start"
  /\ ~ has(ast, "ImportDeclaration")
  /\ ~ has(ast, "ExportDefaultDeclaration")
  /\ has(ast, "ExportNamedDeclaration")
  /\ Return(convertExportNamedDeclarationToDefine(ast))
  /\ UNCHANGED << imports, ids, cursor, dependencyToIdentifierMap, result, pairs,
                  allocations, input, beforeNormalize >>

\* convert() where no branch applies
convertNothing ==
  /\ pc = "start"
  /\ ~ has(ast, "ImportDeclaration")
  /\ ~ has(ast, "ExportDefaultDeclaration")
  /\ ~ has(ast, "ExportNamedDeclaration")
  /\ Return(ast)
  /\ UNCHANGED << imports, ids, cursor, dependencyToIdentifierMap, result, pairs,
                  allocations, input, beforeNormalize >>

\* the caller calls convert() on the converted tree
convertAgain ==
  /\ pc = "done"
  /\ calls < MaxCalls
  /\ pc' = "start"
  /\ UNCHANGED << ast, calls, imports, ids, cursor, dependencyToIdentifierMap, result,
                  pairs, allocations, input, beforeNormalize, firstOutput >>

Next ==
  \/ convertCodeWithImportDeclarations
  \/ getDependencyPairs
  \/ removeImportDeclarations
  \/ normalizePairsCall
  \/ convertExportsAndPrepend
  \/ wrapWithDefineWithArrayExpressionCall
  \/ convertExportDefault
  \/ convertExportNamed
  \/ convertNothing
  \/ convertAgain

Spec == Init /\ [][Next]_vars

(***************************************************************************)
(* Vocabulary of the properties.                                           *)
(***************************************************************************)
Range(seq) == { seq[k] : k \in 1..Len(seq) }

HasImports(tree) == has(tree, "ImportDeclaration")
HasDefault(tree) == has(tree, "ExportDefaultDeclaration")
HasNamed(tree) == has(tree, "ExportNamedDeclaration")

\* the first convert() call has returned
Converted == pc = "done" /\ calls = 1
\* ... and it took the import path
ConvertedImports == Converted /\ HasImports(input)
\* the first convert() call threw (the TypeError of line 65) and left the tree to
\* its caller as it was when the exception was raised
Thrown == pc = "threw"
\* the first convert() call is over: it returned or it threw
AfterConvert == Converted \/ Thrown

\* the define(...) call of a converted tree, its factory and the factory's statements
DefineCall == ast.body[1].expression
Factory == DefineCall.arguments[Len(DefineCall.arguments)]
FactoryBody == Factory.body.body
\* on the import path: the dependency array and the parameter list, as strings
Elements == [k \in 1..Len(DefineCall.arguments[1].elements) |->
               DefineCall.arguments[1].elements[k].value]
Params == [k \in 1..Len(Factory.params) |-> Factory.params[k].name]

\* the names of the identifiers under a sequence of statements
IdentifierNames(stmts) ==
  { n.name : n \in Range(find(Program(stmts), "Identifier")) }

(***************************************************************************)
(* C1: on the import path, every dependency pair that carries a param has  *)
(* its param at the position in the factory's parameter list at which its  *)
(* module specifier stands in the dependency array.                        *)
(***************************************************************************)
C1_ParamBindsItsSpecifier ==
  ConvertedImports =>
    \A k \in 1..Len(pairs) :
      Truthy(pairs[k].param) =>
        \E q \in 1..Len(Params) :
          /\ q <= Len(Elements)
          /\ Params[q] = pairs[k].param
          /\ Elements[q] = pairs[k].element

(***************************************************************************)
(* C2: after convert() on a tree with an import or an export, the program  *)
(* is one expression statement calling define; the call's last argument is *)
(* a function expression whose block starts with the 'use strict'          *)
(* directive, followed by the original statements that remain, in their    *)
(* original order; the call has two arguments (array, factory) when the    *)
(* tree had imports, and one (a factory without parameters) when not.      *)
(***************************************************************************)
\* the name an expression refers to, also once it was rewritten to param.name
PrincipalName(e) ==
  IF e.type = "Identifier" THEN e.name
  ELSE IF e.type = "MemberExpression" THEN e.property.name
  ELSE e.type

\* what identifies a top-level statement before and after its transformation;
\* an exported declaration is identified by the declaration, a default export by
\* the return statement it becomes
RECURSIVE Origin(_)
Origin(stmt) ==
  CASE stmt.type = "ImportDeclaration" -> << "import", stmt.source.value, Len(stmt.specifiers) >>
    [] stmt.type = "ExportDefaultDeclaration" -> << "default" >>
    [] stmt.type = "ReturnStatement" ->
         IF "declaration" \in DOMAIN stmt THEN << "default" >> ELSE << "return" >>
    [] stmt.type = "ExportNamedDeclaration" ->
         IF stmt.declaration.type = "Null" THEN << "specifiers" >>
         ELSE Origin(stmt.declaration)
    [] stmt.type = "VariableDeclaration" ->
         << "VariableDeclaration", PrincipalName(stmt.declarations[1].id) >>
    [] stmt.type = "FunctionDeclaration" ->
         << "FunctionDeclaration", PrincipalName(stmt.id) >>
    [] stmt.type = "ExpressionStatement" ->
         IF stmt.expression.type = "CallExpression"
         THEN << "call", PrincipalName(stmt.expression.callee) >>
         ELSE << "expression", stmt.expression.type >>
    [] OTHER -> << stmt.type >>

Origins(stmts) == [k \in 1..Len(stmts) |-> Origin(stmts[k])]

\* s is t with some elements left out (t has no element twice)
IsSubsequence(s, t) ==
  /\ \A k \in 1..Len(s) : \E l \in 1..Len(t) : t[l] = s[k]
  /\ \A k, l \in 1..Len(s) :
       k < l => indexOf(t, s[k]) < indexOf(t, s[l])

\* the statements of the factory after the directive, without the return statement
\* that the named-export conversion appends
Remaining ==
  LET rest == Tail(FactoryBody)
  IN IF rest # << >> /\ Origin(rest[Len(rest)]) = << "return" >>
     THEN SubSeq(rest, 1, Len(rest) - 1)
     ELSE rest

\* the statements that are neither imports nor export lists, which hold no code
Code(stmts) ==
  SelectSeq(stmts, LAMBDA st : Origin(st)[1] \notin {"import", "specifiers"})

\* the shape C2 describes, of the tree as it is now
SingleDefineCall ==
    /\ Len(ast.body) = 1
    /\ ast.body[1].type = "ExpressionStatement"
    /\ DefineCall.type = "CallExpression"
    /\ DefineCall.callee = [type |-> "Identifier", name |-> "define"]
    /\ Len(DefineCall.arguments) = IF HasImports(input) THEN 2 ELSE 1
    /\ HasImports(input) => DefineCall.arguments[1].type = "ArrayExpression"
    /\ ~ HasImports(input) => Factory.params = << >>
    /\ Factory.type = "FunctionExpression"
    /\ Factory.body.type = "BlockStatement"
    /\ FactoryBody # << >>
    /\ FactoryBody[1] = UseStrictLiteral
    /\ IsSubsequence(Origins(Remaining), Origins(input.body))
    /\ Range(Origins(Code(input.body))) \subseteq Range(Origins(Remaining))

\* C2 as stated: after convert() on any tree with an import or an export, also
\* when the call ended in the TypeError of line 65
C2_SingleDefineCall ==
  (AfterConvert /\ (HasImports(input) \/ HasDefault(input) \/ HasNamed(input))) =>
    SingleDefineCall

\* what the code does keep: every convert() call that returns leaves the shape
SingleDefineCallOnReturn ==
  (Converted /\ (HasImports(input) \/ HasDefault(input) \/ HasNamed(input))) =>
    SingleDefineCall

\* a module with an import, code and an exported declaration was converted
ConvertedWithImportAndExport ==
  /\ Converted
  /\ HasImports(input)
  /\ HasNamed(input)
  /\ Len(Remaining) = 2
  /\ Len(FactoryBody) = 4

(***************************************************************************)
(* C3: for a tree without imports that has a default export or named       *)
(* exports, the factory body ends with a return statement, wherever the    *)
(* export stood among the top-level statements.                            *)
(***************************************************************************)
C3_FactoryEndsWithReturn ==
  (Converted /\ ~ HasImports(input) /\ (HasDefault(input) \/ HasNamed(input))) =>
    FactoryBody[Len(FactoryBody)].type = "ReturnStatement"

(***************************************************************************)
(* C4: the tree convert() leaves holds no ImportDeclaration,               *)
(* ExportDefaultDeclaration or ExportNamedDeclaration, and a second        *)
(* convert() leaves it as the first one did.                               *)
(***************************************************************************)
NothingToConvert(tree) == ~ HasImports(tree) /\ ~ HasDefault(tree) /\ ~ HasNamed(tree)

\* of the calls that return
Idempotent ==
  /\ (pc = "done" /\ calls >= 1) => NothingToConvert(ast)
  /\ (pc = "done" /\ calls >= 2) => ast = firstOutput

\* C4 as stated: for every input tree, also one that has a default export and
\* named exports, and also one on which convert() ends in the TypeError of line 65
C4_Idempotent ==
  /\ Idempotent
  /\ Thrown => NothingToConvert(ast)

\* what the code does keep: a convert() call that returns, on a tree that does not
\* have both a default export and a named export, is idempotent
IdempotentOneExportStyleOnReturn ==
  ~ (HasDefault(input) /\ HasNamed(input)) => Idempotent

\* convert() returned twice on a module with an import, code and an export
ConvertedTwice ==
  /\ pc = "done"
  /\ calls = 2
  /\ HasImports(input)
  /\ HasNamed(input)
  /\ ~ HasDefault(input)
  /\ Len(input.body) = 3
  /\ ast = firstOutput

(***************************************************************************)
(* C5: for every export list (an ExportNamedDeclaration with specifiers    *)
(* and no declaration), with or without imports, the returned object has,  *)
(* for each specifier, a shorthand property whose key and value are the    *)
(* Identifier of the specifier's local name.                               *)
(***************************************************************************)
ReturnedObject == FactoryBody[Len(FactoryBody)].argument

C5_ShorthandLocalIdentifier ==
  (Converted /\ HasNamed(input) /\ ~ HasDefault(input)) =>
    \A k \in 1..Len(input.body) :
      (input.body[k].type = "ExportNamedDeclaration"
         /\ input.body[k].declaration.type = "Null") =>
        \A j \in 1..Len(input.body[k].specifiers) :
          \E q \in 1..Len(ReturnedObject.properties) :
            LET property == ReturnedObject.properties[q]
                local == Identifier(input.body[k].specifiers[j].local.name)
            IN /\ property.shorthand
               /\ property.key = local
               /\ property.value = local

(***************************************************************************)
(* C6: a synthetic parameter allocated for unrenamed named imports is never*)
(* the name of an identifier of the module body (the statements that are   *)
(* not imports).                                                           *)
(***************************************************************************)
ModuleBody == SelectSeq(input.body, LAMBDA st : st.type # "ImportDeclaration")

C6_ParamNotInBody ==
  \A k \in 1..Len(allocations) :
    allocations[k].param \notin IdentifierNames(ModuleBody)

(***************************************************************************)
(* C7: the names handed to the allocator hold every identifier name of the *)
(* import declarations and every synthetic parameter allocated before; so  *)
(* the allocated name is no local name of an import, and the factory's     *)
(* parameters are pairwise distinct (the imports' local names being so).   *)
(***************************************************************************)
C7_ExclusionSet ==
  /\ \A k \in 1..Len(allocations) :
       /\ IdentifierNames(imports) \subseteq Range(allocations[k].identifiers)
       /\ \A l \in 1..(k - 1) :
            allocations[l].param \in Range(allocations[k].identifiers)
       /\ allocations[k].param \notin IdentifierNames(imports)
  /\ ConvertedImports =>
       \A k, l \in 1..Len(Params) : Params[k] = Params[l] => k = l

(***************************************************************************)
(* C8: two dependency pairs collapse exactly when they have the same       *)
(* element and the same param; the dependency array lists the surviving    *)
(* pairs' elements in order of first occurrence, the parameter list the    *)
(* params of those that have one, in the same order.                       *)
(***************************************************************************)
C8_CollapseIffSameElementAndParam ==
  ConvertedImports =>
    LET survivors == uniqueBy(pairs, [k \in 1..Len(pairs) |-> << pairs[k].element, pairs[k].param >>])
        bound == SelectSeq(survivors, LAMBDA pair : pair.param # UNDEFINED)
    IN /\ Elements = [k \in 1..Len(survivors) |-> survivors[k].element]
       /\ Params = [k \in 1..Len(bound) |-> bound[k].param]

(***************************************************************************)
(* C9: within one convert() call the synthetic parameter is a one-to-one   *)
(* function of the module specifier: unrenamed named specifiers of the     *)
(* same module have the same param, those of different modules different   *)
(* params.                                                                 *)
(***************************************************************************)
C9_ParamOneToOne ==
  \A k, l \in 1..Len(result) :
    (Truthy(result[k].name) /\ Truthy(result[l].name)) =>
      ((result[k].element = result[l].element) <=> (result[k].param = result[l].param))

(***************************************************************************)
(* C10: normalizePairs replaces every Identifier whose name is the name of *)
(* a pair carrying a name by the MemberExpression param.name of that pair, *)
(* once (the identifiers of a replacement are not rewritten again), and    *)
(* leaves every other node as it was.                                      *)
(***************************************************************************)
NamedPairs == { pairs[k] : k \in { l \in 1..Len(pairs) : pairs[l].name # UNDEFINED } }

RECURSIVE Rewritten(_, _)
\* after is before with exactly the identifiers of the named pairs replaced
Rewritten(before, after) ==
  LET keys == VisitorKeys(before.type)
      children == { keys[k].key : k \in 1..Len(keys) }
      lists == { keys[k].key : k \in { l \in 1..Len(keys) : keys[l].list } }
  IN IF before.type = "Identifier"
     THEN IF \E pair \in NamedPairs : pair.name = before.name
          THEN \E pair \in NamedPairs :
                 /\ pair.name = before.name
                 /\ after = [type |-> "MemberExpression",
                             object |-> Identifier(pair.param),
                             property |-> Identifier(pair.name)]
          ELSE after = before
     ELSE /\ after.type = before.type
          /\ DOMAIN after = DOMAIN before
          /\ \A key \in DOMAIN before \ children : after[key] = before[key]
          /\ \A key \in lists :
               /\ Len(after[key]) = Len(before[key])
               /\ \A c \in 1..Len(before[key]) : Rewritten(before[key][c], after[key][c])
          /\ \A key \in children \ lists : Rewritten(before[key], after[key])

C10_RewrittenOnce == pc = "exports" => Rewritten(beforeNormalize, ast)

\* f(b) was rewritten to f(b.b) for the pair {param: b, name: b}, and stayed so
C10_Witness ==
  /\ pc = "exports"
  /\ [element |-> "mn", param |-> "b", name |-> "b"] \in NamedPairs
  /\ [type |-> "MemberExpression", object |-> Identifier("b"), property |-> Identifier("b")]
       \in Range(find(ast, "MemberExpression"))
  /\ Identifier("f") \in Range(find(ast, "Identifier"))

=============================================================================
